---- MODULE Spec2Model ----
(***************************************************************************)
(* Model of scripts/dcpg_eval.py: App.main, the streaming evaluation of a  *)
(* DeepCpG model.  One run of App.main is one behaviour: the program       *)
(* counter pc walks through the statements of main, every external call    *)
(* (model loading, readers, inference, metrics, persistence) may raise.    *)
(* numpy arrays are records [shape, flat]; Python dicts are functions      *)
(* whose DOMAIN is the key set.                                            *)
(***************************************************************************)
EXTENDS Integers, Sequences, FiniteSets, TLC

\* ---------------------------------------------------------------- bounds
MaxSamples == 4
MaxBatchSize == 3

\* ------------------------------------------------------------- constants
\* The label of a sample whose methylation state was not observed.
Missing == -1

None == "None"

\* bool(x) of an optional path: None and the empty string are false.
Truthy(path) == path # None /\ path # ""

\* ------------------------------------------------------------ numpy model
Arr(shape, flat) == [shape |-> shape, flat |-> flat]

\* ndarray.squeeze(): drops EVERY axis of length one, whatever its position.
Squeeze(a) == Arr(SelectSeq(a.shape, LAMBDA d : d # 1), a.flat)

\* len(a) of an array: its first axis; a 0-d array has no len().
HasLen(a) == a.shape # <<>>
ArrLen(a) == a.shape[1]

\* np.atleast_1d, applied by np.hstack to every operand.
AtLeast1d(a) == IF a.shape = <<>> THEN Arr(<<1>>, a.flat) ELSE a

RECURSIVE ConcatFlat(_)
ConcatFlat(arrs) ==
    IF arrs = <<>> THEN <<>>
    ELSE AtLeast1d(Head(arrs)).flat \o ConcatFlat(Tail(arrs))

\* np.hstack of one-dimensional (or 0-d) arrays.
HStack(arrs) == LET f == ConcatFlat(arrs) IN Arr(<<Len(f)>>, f)

RECURSIVE SumSeq(_)
SumSeq(s) == IF s = <<>> THEN 0 ELSE Head(s) + SumSeq(Tail(s))

Min(a, b) == IF a < b THEN a ELSE b

\* ------------------------------------------------------- the environment
\* The outputs a model may declare (model.output_names).
NameLists == { <<"cpg_a">>, <<"cpg_a", "cpg_b">> }
SeqRange(s) == { s[i] : i \in 1..Len(s) }

\* The label stored for sample x (1-based) of an output.
LabelTable == [cpg_a |-> <<0, 1, Missing, 0, 1, 1>>,
               cpg_b |-> <<Missing, 1, 1, 0, Missing, 0>>,
               cpg_x |-> <<1, 1, 0, 0, 1, 0>>]
LabelOf(name, x) == LabelTable[name][((x - 1) % 6) + 1]

\* The network's prediction (in tenths) for sample x on an output.
PredTable == [cpg_a |-> <<1, 9, 4, 2, 6, 3>>,
              cpg_b |-> <<8, 5, 7, 0, 3, 9>>]
PredOf(name, x) == PredTable[name][((x - 1) % 6) + 1]

ChromoOf(x) == IF x <= 2 THEN "chr1" ELSE "chr2"
PosOf(x) == 100 + x

\* ---------------------------------------------------------- the readers
\* dat.get_nb_sample: the number of samples in the files, capped by
\* --nb_sample when that is given (0 stands for None: both are false).
GetNbSample(total, nb_max) ==
    IF nb_max # 0 /\ total > nb_max THEN nb_max ELSE total

NbBatch(n, b) == (n + b - 1) \div b

\* The sample ids of batch k when n samples are read in chunks of b.
ChunkIdx(n, b, k) ==
    [j \in 1..(Min(n, k * b) - (k - 1) * b) |-> (k - 1) * b + j]

\* hdf.reader(..., loop=False, shuffle=False): the first nb_sample samples of
\* the files (all of them when nb_sample is false), in file order, in chunks
\* of batch_size; the last chunk may be shorter.
Chunks(total, nb, b) ==
    LET n == IF nb # 0 THEN Min(nb, total) ELSE total
    IN  [k \in 1..NbBatch(n, b) |-> ChunkIdx(n, b, k)]

\* What a reader that breaks the batch-synchronisation contract yields
\* instead; "none" is the contract kept.
MetaBreaches == {"meta_short", "meta_long", "meta_resized"}
NameBreaches == {"extra_name", "missing_name"}
Breaches == {"none"} \cup MetaBreaches \cup NameBreaches

NoReader == [open |-> FALSE, nb_sample |-> 0, batch_size |-> 0,
             loop |-> TRUE, shuffle |-> TRUE, batches |-> <<>>, i |-> 0]

\* The batches of the data reader built by mod.data_reader_from_model: each
\* carries the sample ids and the output names it holds labels for.
DataBatches(total, nb, b, names, br) ==
    LET ch == Chunks(total, nb, b)
        last == Len(ch)
    IN  [k \in 1..last |->
            [idx |-> ch[k],
             names |-> IF k = last /\ k > 1 /\ br = "extra_name"
                           THEN SeqRange(names) \cup {"cpg_x"}
                       ELSE IF k = last /\ k > 1 /\ br = "missing_name"
                           THEN SeqRange(names) \ {names[Len(names)]}
                       ELSE SeqRange(names)]]

\* The batches of hdf.reader(opts.data_files, ['chromo', 'pos'], ...).
MetaBatches(total, nb, b, br) ==
    LET ch == Chunks(total, nb, b)
        last == Len(ch)
    IN  CASE br = "meta_short" -> SubSeq(ch, 1, last - 1)
          [] br = "meta_long" -> Append(ch, ch[last])
          [] br = "meta_resized" ->
                [ch EXCEPT ![last] = Append(ch[last], ch[last][1])]
          [] OTHER -> ch

DataReader(total, args, names, br) ==
    [open |-> TRUE, nb_sample |-> args.nb_sample, batch_size |-> args.batch_size,
     loop |-> args.loop, shuffle |-> args.shuffle,
     batches |-> DataBatches(total, args.nb_sample, args.batch_size, names, br),
     i |-> 0]

MetaReader(total, args, br) ==
    [open |-> TRUE, nb_sample |-> args.nb_sample, batch_size |-> args.batch_size,
     loop |-> args.loop, shuffle |-> args.shuffle,
     batches |-> MetaBatches(total, args.nb_sample, args.batch_size, br),
     i |-> 0]

\* The (inputs, outputs, weights) triple the data reader yields for a batch.
BatchInputs(b) == [dna |-> Arr(<<Len(b.idx), 1>>, b.idx)]
BatchOutputs(b) ==
    [name \in b.names |->
        Arr(<<Len(b.idx)>>, [j \in 1..Len(b.idx) |-> LabelOf(name, b.idx[j])])]
BatchWeights(b) ==
    [name \in b.names |->
        Arr(<<Len(b.idx)>>,
            [j \in 1..Len(b.idx) |->
                IF LabelOf(name, b.idx[j]) = Missing THEN 0 ELSE 1])]
YieldBatch(b) ==
    [inputs |-> BatchInputs(b), outputs |-> BatchOutputs(b),
     weights |-> BatchWeights(b)]

\* The dict next(meta_reader) returns for a batch.
YieldMeta(idx) ==
    [chromo |-> Arr(<<Len(idx)>>, [j \in 1..Len(idx) |-> ChromoOf(idx[j])]),
     pos |-> Arr(<<Len(idx)>>, [j \in 1..Len(idx) |-> PosOf(idx[j])])]

\* ---------------------------------------------------------- the network
\* model.predict(inputs): one (batch, 1) array per declared output; Keras
\* returns the bare array when the model has a single output.
ModelPredict(output_names, inputs) ==
    LET x == inputs.dna.flat
        one(name) == Arr(<<Len(x), 1>>, [j \in 1..Len(x) |-> PredOf(name, x[j])])
    IN  IF Len(output_names) = 1
            THEN [islist |-> FALSE, value |-> one(output_names[1])]
        ELSE [islist |-> TRUE,
              items |-> [i \in 1..Len(output_names) |-> one(output_names[i])]]

\* utils.to_list: a value that is not a list becomes a one-element list.
ToList(v) == IF v.islist THEN v.items ELSE <<v.value>>

\* ------------------------------------------------------ the accumulator
EmptyDict == [k \in {} |-> <<>>]

\* The keys of data_batch whose value is itself a dict.
IsDictKey(k) == k \in {"preds", "outputs"}

\* The leaves of add_to_dict: a list per key, created on first occurrence,
\* each batch's value appended to it.
AddLeaves(src, dst) ==
    [k \in DOMAIN dst \cup DOMAIN src |->
        IF k \notin DOMAIN src THEN dst[k]
        ELSE IF k \in DOMAIN dst THEN Append(dst[k], src[k])
        ELSE <<src[k]>>]

\* dat.add_to_dict(src, dst): recursive on dict values.
AddToDict(src, dst) ==
    [k \in DOMAIN dst \cup DOMAIN src |->
        IF k \notin DOMAIN src THEN dst[k]
        ELSE IF IsDictKey(k)
            THEN AddLeaves(src[k], IF k \in DOMAIN dst THEN dst[k] ELSE EmptyDict)
        ELSE IF k \in DOMAIN dst THEN Append(dst[k], src[k])
        ELSE <<src[k]>>]

\* dat.stack_dict(data): every list of per-batch arrays becomes one array,
\* in batch arrival order.
StackDict(d) ==
    [k \in DOMAIN d |->
        IF IsDictKey(k) THEN [n \in DOMAIN d[k] |-> HStack(d[k][n])]
        ELSE HStack(d[k])]

\* ---------------------------------------------------------- the metrics
\* One record per output, from that output's two aligned arrays only; the
\* samples labelled Missing do not count.
Observed(y) == { j \in 1..Len(y.flat) : y.flat[j] # Missing }
MetricsOf(y, z) ==
    [n |-> Cardinality(Observed(y)),
     hits |-> Cardinality({ j \in Observed(y) : (z.flat[j] >= 5) = (y.flat[j] = 1) })]

\* ev.evaluate_outputs(outputs, preds): fails on arrays of unequal length.
CanEvaluate(outputs, preds) ==
    /\ DOMAIN outputs = DOMAIN preds
    /\ \A name \in DOMAIN outputs : outputs[name].shape = preds[name].shape
EvaluateOutputs(outputs, preds) ==
    [form |-> "long",
     rows |-> [name \in DOMAIN outputs |-> MetricsOf(outputs[name], preds[name])]]

\* ev.unstack_report: the same values, one row per output.
UnstackReport(r) == [form |-> "wide", rows |-> r.rows]
NoReport == [form |-> "none", rows |-> EmptyDict]

\* ------------------------------------------------------------- App.main
VARIABLES
    opts,         \* the parsed command line
    env,          \* the files: sample count, the model's outputs, reader contract
    pc,           \* the statement of main about to run; "done" after return 0
    error,        \* the exception that ended the run and the statement raising it
    trace,        \* the statements completed so far, in order
    model,        \* mod.load_model's result
    nb_sample,    \* the resolved sample cap
    data_reader,
    meta_reader,
    batch,        \* the loop's (inputs, outputs, weights)
    batch_size,   \* the loop's batch_size local
    preds,        \* the loop's preds local
    data_batch,   \* the loop's data_batch local
    data,         \* the accumulated dataset
    progress,     \* the samples reported to the progress bar
    report,       \* the report local
    files,        \* what is on disk at opts.out_report and opts.out_data
    printed       \* the wide-form reports printed to standard output

vars == <<opts, env, pc, error, trace, model, nb_sample, data_reader, meta_reader,
          batch, batch_size, preds, data_batch, data, progress, report, files,
          printed>>

ModelFileArgs ==
    { [given |-> FALSE, files |-> <<>>],
      [given |-> TRUE, files |-> <<>>],
      [given |-> TRUE, files |-> <<"model.h5">>] }

Options ==
    [model_files : ModelFileArgs,
     out_report : {None, "eval.tsv"},
     out_data : {None, "eval.h5"},
     batch_size : 1..MaxBatchSize,
     nb_sample : 0..MaxSamples]

\* The data files hold at least one sample.
Environments(breaches) ==
    [total : 1..MaxSamples, output_names : NameLists, breach : breaches]

NoBatch == [inputs |-> EmptyDict, outputs |-> EmptyDict, weights |-> EmptyDict]

InitWith(breaches) ==
    /\ opts \in Options
    /\ env \in Environments(breaches)
    /\ pc = "check_model_files"
    /\ error = [type |-> None, at |-> None]
    /\ trace = <<>>
    /\ model = [loaded |-> FALSE, output_names |-> <<>>]
    /\ nb_sample = 0
    /\ data_reader = NoReader
    /\ meta_reader = NoReader
    /\ batch = NoBatch
    /\ batch_size = 0
    /\ preds = <<>>
    /\ data_batch = EmptyDict
    /\ data = EmptyDict
    /\ progress = 0
    /\ report = NoReport
    /\ files = [report |-> "absent", data |-> "absent"]
    /\ printed = 0

\* The readers keep their contract: both chunk the same samples alike.
Init == InitWith({"none"})

\* The readers may break the contract of batch synchronisation.
InitBreach == InitWith(Breaches)

\* `raise`: the run ends at the statement pc with exception err.
Raise(err) ==
    /\ pc' = "failed"
    /\ error' = [type |-> err, at |-> pc]
    /\ UNCHANGED trace

\* The statement pc completed; control moves to statement next.
Goto(next) ==
    /\ pc' = next
    /\ trace' = Append(trace, pc)
    /\ UNCHANGED error

\* Mutant: the test reads `opts.model_files is None`.
NoModelFiles_NoneOnly(mf) == ~mf.given

\* `not opts.model_files`: None and the empty list are both false.
NoModelFiles(mf) == ~mf.given \/ mf.files = <<>>

CheckModelFiles ==
    /\ pc = "check_model_files"
    /\ IF NoModelFiles(opts.model_files)
           THEN Raise("ValueError")
       ELSE Goto("load_model")
    /\ UNCHANGED <<opts, env, model, nb_sample, data_reader, meta_reader, batch,
                   batch_size, preds, data_batch, data, progress, report, files,
                   printed>>

LoadModel ==
    /\ pc = "load_model"
    /\ \E ok \in BOOLEAN :
        IF ok
            THEN /\ model' = [loaded |-> TRUE, output_names |-> env.output_names]
                 /\ Goto("open_data")
        ELSE /\ Raise("IOError")
             /\ UNCHANGED model
    /\ UNCHANGED <<opts, env, nb_sample, data_reader, meta_reader, batch,
                   batch_size, preds, data_batch, data, progress, report, files,
                   printed>>

\* Mutant: the data reader is constructed without nb_sample.
DataReaderArgs_Uncapped(o, nb) ==
    [nb_sample |-> 0, batch_size |-> o.batch_size, loop |-> FALSE, shuffle |-> FALSE]

\* The keyword arguments both readers are constructed with.
DataReaderArgs(o, nb) ==
    [nb_sample |-> nb, batch_size |-> o.batch_size, loop |-> FALSE, shuffle |-> FALSE]
MetaReaderArgs(o, nb) ==
    [nb_sample |-> nb, batch_size |-> o.batch_size, loop |-> FALSE, shuffle |-> FALSE]

OpenData ==
    /\ pc = "open_data"
    /\ \E ok \in BOOLEAN :
        IF ok
            THEN /\ nb_sample' = GetNbSample(env.total, opts.nb_sample)
                 /\ data_reader' = DataReader(env.total, DataReaderArgs(opts, nb_sample'),
                                              model.output_names, env.breach)
                 /\ meta_reader' = MetaReader(env.total, MetaReaderArgs(opts, nb_sample'),
                                              env.breach)
                 /\ Goto("next_batch")
        ELSE /\ Raise("IOError")
             /\ UNCHANGED <<nb_sample, data_reader, meta_reader>>
    /\ UNCHANGED <<opts, env, model, batch, batch_size, preds, data_batch, data,
                   progress, report, files, printed>>

\* for inputs, outputs, weights in data_reader: the next batch, or the end
\* of the loop when the reader is exhausted.
NextBatch ==
    /\ pc = "next_batch"
    /\ IF data_reader.i = Len(data_reader.batches)
           THEN /\ Goto("finalize")
                /\ UNCHANGED <<data_reader, batch>>
       ELSE \E ok \in BOOLEAN :
           IF ok
               THEN /\ data_reader' = [data_reader EXCEPT !.i = @ + 1]
                    /\ batch' = YieldBatch(data_reader.batches[data_reader.i + 1])
                    /\ Goto("predict")
           ELSE /\ Raise("IOError")
                /\ UNCHANGED <<data_reader, batch>>
    /\ UNCHANGED <<opts, env, model, nb_sample, meta_reader, batch_size, preds,
                   data_batch, data, progress, report, files, printed>>

\* len(list(inputs.values())[0])
BatchSizeOf(inputs) == ArrLen(inputs.dna)

\* The batch is counted and reported, then the network is run on its inputs.
Predict ==
    /\ pc = "predict"
    /\ batch_size' = BatchSizeOf(batch.inputs)
    /\ progress' = progress + batch_size'
    /\ \E ok \in BOOLEAN :
        IF ok
            THEN /\ preds' = ToList(ModelPredict(model.output_names, batch.inputs))
                 /\ Goto("build_batch")
        ELSE /\ Raise("RuntimeError")
             /\ UNCHANGED preds
    /\ UNCHANGED <<opts, env, model, nb_sample, data_reader, meta_reader, batch,
                   data_batch, data, report, files, printed>>

\* outputs[name] raises KeyError for a declared output the batch lacks, and
\* preds[i] raises IndexError past the end of the predictions.
CanBuild(output_names, p, outputs) ==
    /\ Len(output_names) <= Len(p)
    /\ \A i \in 1..Len(output_names) : output_names[i] \in DOMAIN outputs

IndexOf(output_names, name) ==
    CHOOSE i \in 1..Len(output_names) : output_names[i] = name

\* Mutant: preds[0] is stored for every output.
BuildDataBatch_FirstPred(output_names, p, outputs) ==
    [preds |-> [name \in SeqRange(output_names) |-> Squeeze(p[1])],
     outputs |-> [name \in SeqRange(output_names) |-> Squeeze(outputs[name])]]

\* data_batch after the loop over enumerate(model.output_names).
BuildDataBatch(output_names, p, outputs) ==
    [preds |-> [name \in SeqRange(output_names) |->
                    Squeeze(p[IndexOf(output_names, name)])],
     outputs |-> [name \in SeqRange(output_names) |-> Squeeze(outputs[name])]]

BuildBatch ==
    /\ pc = "build_batch"
    /\ IF CanBuild(model.output_names, preds, batch.outputs)
           THEN /\ data_batch' = BuildDataBatch(model.output_names, preds, batch.outputs)
                /\ Goto("accumulate")
       ELSE /\ Raise("KeyError")
            /\ UNCHANGED data_batch
    /\ UNCHANGED <<opts, env, model, nb_sample, data_reader, meta_reader, batch,
                   batch_size, preds, data, progress, report, files, printed>>

\* Mutant: the assignment runs after the loop over the items, once.
WithMeta_LastItemOnly(db, meta) ==
    [k \in DOMAIN db \cup {"pos"} |-> IF k = "pos" THEN meta[k] ELSE db[k]]

\* data_batch[name] = value for every item of the auxiliary batch.
WithMeta(db, meta) ==
    [k \in DOMAIN db \cup DOMAIN meta |-> IF k \in DOMAIN meta THEN meta[k] ELSE db[k]]

\* Mutant: data = dict() sits inside the loop.
AccumulateBatch_FreshDict(db, d) == AddToDict(db, EmptyDict)

\* dat.add_to_dict(data_batch, data) on the dict created before the loop.
AccumulateBatch(db, d) == AddToDict(db, d)

\* next(meta_reader) raises StopIteration when the auxiliary reader is
\* exhausted; otherwise its fields join the batch, which is accumulated.
Accumulate ==
    /\ pc = "accumulate"
    /\ IF meta_reader.i = Len(meta_reader.batches)
           THEN /\ Raise("StopIteration")
                /\ UNCHANGED <<meta_reader, data_batch, data>>
       ELSE \E ok \in BOOLEAN :
           IF ok
               THEN /\ meta_reader' = [meta_reader EXCEPT !.i = @ + 1]
                    /\ data_batch' = WithMeta(data_batch,
                           YieldMeta(meta_reader.batches[meta_reader.i + 1]))
                    /\ data' = AccumulateBatch(data_batch', data)
                    /\ Goto("next_batch")
           ELSE /\ Raise("IOError")
                /\ UNCHANGED <<meta_reader, data_batch, data>>
    /\ UNCHANGED <<opts, env, model, nb_sample, data_reader, batch, batch_size,
                   preds, progress, report, files, printed>>

\* progbar.close(); data = dat.stack_dict(data)
Finalize ==
    /\ pc = "finalize"
    /\ \E ok \in BOOLEAN :
        IF ok
            THEN /\ data' = StackDict(data)
                 /\ Goto("evaluate")
        ELSE /\ Raise("MemoryError")
             /\ UNCHANGED data
    /\ UNCHANGED <<opts, env, model, nb_sample, data_reader, meta_reader, batch,
                   batch_size, preds, data_batch, progress, report, files, printed>>

\* report = ev.evaluate_outputs(data['outputs'], data['preds'])
Evaluate ==
    /\ pc = "evaluate"
    /\ IF ~({"outputs", "preds"} \subseteq DOMAIN data)
           THEN /\ Raise("KeyError")
                /\ UNCHANGED report
       ELSE IF ~CanEvaluate(data["outputs"], data["preds"])
           THEN /\ Raise("ValueError")
                /\ UNCHANGED report
       ELSE \E ok \in BOOLEAN :
           IF ok
               THEN /\ report' = EvaluateOutputs(data["outputs"], data["preds"])
                    /\ Goto("write_report")
           ELSE /\ Raise("RuntimeError")
                /\ UNCHANGED report
    /\ UNCHANGED <<opts, env, model, nb_sample, data_reader, meta_reader, batch,
                   batch_size, preds, data_batch, data, progress, files, printed>>

\* Mutant: the report is written under the data path's condition.
WritesReport_AsData(o) == Truthy(o.out_data)

\* if opts.out_report:
WritesReport(o) == Truthy(o.out_report)

\* report.to_csv(opts.out_report, ...): a write that fails may leave a
\* truncated file behind.
WriteReport ==
    /\ pc = "write_report"
    /\ IF WritesReport(opts)
           THEN \E ok \in BOOLEAN :
               IF ok
                   THEN /\ files' = [files EXCEPT !.report = "written"]
                        /\ Goto("print_report")
               ELSE /\ \E left \in {"absent", "partial"} :
                           files' = [files EXCEPT !.report = left]
                    /\ Raise("IOError")
       ELSE /\ Goto("print_report")
            /\ UNCHANGED files
    /\ UNCHANGED <<opts, env, model, nb_sample, data_reader, meta_reader, batch,
                   batch_size, preds, data_batch, data, progress, report, printed>>

\* report = ev.unstack_report(report); print(report.to_string())
PrintReport ==
    /\ pc = "print_report"
    /\ \E ok \in BOOLEAN :
        IF ok
            THEN /\ report' = UnstackReport(report)
                 /\ printed' = printed + 1
                 /\ Goto("write_data")
        ELSE /\ Raise("RuntimeError")
             /\ UNCHANGED <<report, printed>>
    /\ UNCHANGED <<opts, env, model, nb_sample, data_reader, meta_reader, batch,
                   batch_size, preds, data_batch, data, progress, files>>

\* Mutant: the data is written under the report path's condition.
WritesData_AsReport(o) == Truthy(o.out_report)

\* if opts.out_data:
WritesData(o) == Truthy(o.out_data)

\* hdf.write_data(data, opts.out_data)
WriteData ==
    /\ pc = "write_data"
    /\ IF WritesData(opts)
           THEN \E ok \in BOOLEAN :
               IF ok
                   THEN /\ files' = [files EXCEPT !.data = "written"]
                        /\ Goto("return")
               ELSE /\ \E left \in {"absent", "partial"} :
                           files' = [files EXCEPT !.data = left]
                    /\ Raise("IOError")
       ELSE /\ Goto("return")
            /\ UNCHANGED files
    /\ UNCHANGED <<opts, env, model, nb_sample, data_reader, meta_reader, batch,
                   batch_size, preds, data_batch, data, progress, report, printed>>

\* log.info('Done!'); return 0
Return ==
    /\ pc = "return"
    /\ Goto("done")
    /\ UNCHANGED <<opts, env, model, nb_sample, data_reader, meta_reader, batch,
                   batch_size, preds, data_batch, data, progress, report, files,
                   printed>>

Next ==
    \/ CheckModelFiles
    \/ LoadModel
    \/ OpenData
    \/ NextBatch
    \/ Predict
    \/ BuildBatch
    \/ Accumulate
    \/ Finalize
    \/ Evaluate
    \/ WriteReport
    \/ PrintReport
    \/ WriteData
    \/ Return

Spec == Init /\ [][Next]_vars

SpecBreach == InitBreach /\ [][Next]_vars

\* ================================================================ claims
Completed(stmt) == \E i \in 1..Len(trace) : trace[i] = stmt
Count(stmt) == Cardinality({ i \in 1..Len(trace) : trace[i] = stmt })
IndexIn(stmt) == CHOOSE i \in 1..Len(trace) : trace[i] = stmt

\* dat.stack_dict has returned.
StackRan == Completed("finalize")

\* The batches the loop has pulled from the data reader, in arrival order.
Consumed == SubSeq(data_reader.batches, 1, data_reader.i)
ConsumedSamples == SumSeq([k \in 1..Len(Consumed) |-> Len(Consumed[k].idx)])
DeclaredOutputs == SeqRange(model.output_names)

YieldedLabels(name) ==
    ConcatFlat([k \in 1..Len(Consumed) |-> BatchOutputs(Consumed[k])[name]])
PredictedValues(name) ==
    ConcatFlat([k \in 1..Len(Consumed) |->
        ToList(ModelPredict(model.output_names, BatchInputs(Consumed[k])))
            [IndexOf(model.output_names, name)]])

\* C2: the finalized outputs of a name are the yielded labels in arrival
\* order, Missing labels included and in place; the finalized preds are the
\* network's predictions in arrival order.
C2_ArrivalOrder ==
    StackRan =>
        \A name \in DeclaredOutputs :
            /\ name \in DOMAIN data["outputs"] /\ name \in DOMAIN data["preds"]
            /\ data["outputs"][name].flat = YieldedLabels(name)
            /\ data["preds"][name].flat = PredictedValues(name)
            /\ \A j \in 1..ConsumedSamples :
                  (LabelOf(name, j) = Missing) <=> (data["outputs"][name].flat[j] = Missing)

\* Two batches of two, one output: labels 0 1 Missing 0, predictions
\* .1 .9 .4 .2.
C2_Witness ==
    /\ pc = "done"
    /\ Len(Consumed) = 2
    /\ \A k \in 1..2 : Len(Consumed[k].idx) = 2
    /\ model.output_names = <<"cpg_a">>
    /\ data["outputs"]["cpg_a"] = Arr(<<4>>, <<0, 1, Missing, 0>>)
    /\ data["preds"]["cpg_a"] = Arr(<<4>>, <<1, 9, 4, 2>>)

\* The finalized dataset of the same files, model and cap read as ONE batch.
OneBatchRun ==
    LET n == IF nb_sample # 0 THEN Min(nb_sample, env.total) ELSE env.total
        whole == DataBatches(env.total, nb_sample, n, model.output_names, "none")[1]
        p == ToList(ModelPredict(model.output_names, BatchInputs(whole)))
        db == WithMeta(BuildDataBatch(model.output_names, p, BatchOutputs(whole)),
                       YieldMeta(whole.idx))
    IN  StackDict(AddToDict(db, EmptyDict))

\* C3: whatever the batch size, the finalized dataset is the one a single
\* batch holding every sample gives: batching only chunks the stream.
C3_BatchSizeIrrelevant == StackRan => data = OneBatchRun

\* A batch size that does not divide the samples and leaves one sample last.
C3_Witness ==
    /\ StackRan
    /\ opts.batch_size = 2
    /\ ConsumedSamples = 3
    /\ Len(Consumed) = 2
    /\ data["pos"].flat = <<PosOf(1), PosOf(2), PosOf(3)>>

NothingWritten == files.report = "absent" /\ files.data = "absent"

\* C4: without model files the run raises ValueError before the model is
\* loaded, before a reader exists, before a batch is read and before a file
\* is written; it never returns 0.
C4_NoModelFilesIsFatal ==
    (opts.model_files.files = <<>>) =>
        /\ pc \in {"check_model_files", "failed"}
        /\ pc = "failed" => error = [type |-> "ValueError", at |-> "check_model_files"]
        /\ ~model.loaded
        /\ ~data_reader.open /\ ~meta_reader.open
        /\ data_reader.i = 0 /\ progress = 0
        /\ NothingWritten /\ printed = 0

\* --model_files given with an empty list: the run has failed.
C4_Witness ==
    /\ opts.model_files = [given |-> TRUE, files |-> <<>>]
    /\ pc = "failed"
    /\ error.type = "ValueError"

\* The two readers do not describe the same batches.
StreamsDisagree ==
    /\ data_reader.open
    /\ \/ Len(meta_reader.batches) # Len(data_reader.batches)
       \/ \E k \in 1..Len(data_reader.batches) :
             Len(meta_reader.batches[k]) # Len(data_reader.batches[k].idx)

\* C5: when the auxiliary reader disagrees with the data reader (a batch of
\* another size, fewer batches, more batches) the run fails: it computes no
\* metrics, writes nothing and does not return 0.
C5_MismatchIsFatal ==
    StreamsDisagree =>
        /\ ~Completed("evaluate")
        /\ NothingWritten
        /\ pc # "done"

\* Batch k of the data reader holds another set of output names than batch 1.
NamesDifferAt(k) == data_reader.batches[k].names # data_reader.batches[1].names

\* C6: a batch after the first whose output names differ from the first
\* batch's makes the run fail at that batch: the loop neither goes on to the
\* next batch nor leaves for finalization.
C6_NameSetIsFixed ==
    \A k \in 2..data_reader.i :
        NamesDifferAt(k) =>
            /\ pc \in {"predict", "build_batch", "accumulate", "failed"}
            /\ pc = "failed" =>
                  error.at \in {"predict", "build_batch", "accumulate"}

FailedBeforeReport ==
    /\ pc = "failed"
    /\ error.at \in {"check_model_files", "load_model", "open_data", "next_batch",
                     "predict", "build_batch", "accumulate", "finalize", "evaluate"}
FailedAfterReport ==
    /\ pc = "failed"
    /\ error.at \in {"print_report", "write_data"}

\* C7 as stated: a run that fails at model loading, reading, inference,
\* accumulation, finalization, metric computation, report reshaping or
\* printing, or raw-data writing has written neither file.
C7_NothingPersistedOnFailure ==
    (FailedBeforeReport \/ FailedAfterReport) => NothingWritten

\* C7 amended: a run that fails up to and including metric computation has
\* written neither file; a run that fails at reshaping, printing or raw-data
\* writing fails after the report file, when configured, was written; no
\* failed run has a completely written data file.
C7_PersistedOnFailure ==
    /\ FailedBeforeReport => NothingWritten
    /\ FailedAfterReport =>
          files.report = (IF Truthy(opts.out_report) THEN "written" ELSE "absent")
    /\ pc = "failed" => files.data # "written"

\* The raw-data write fails with the report already on disk.
C7_Witness ==
    /\ pc = "failed"
    /\ error.at = "write_data"
    /\ files.report = "written"

\* for ... in data_reader has ended.
LoopEnded == pc = "finalize"
CapConfigured == opts.nb_sample # 0 /\ opts.nb_sample < env.total
Accumulated(lists) == Len(ConcatFlat(lists))

\* C8: both readers are bound to the resolved cap and to opts.batch_size,
\* and with a cap N below the dataset size the loop processes exactly N
\* samples, in the progress updates and in every accumulated list.
C8_SampleCap ==
    /\ data_reader.open =>
          /\ data_reader.nb_sample = nb_sample /\ meta_reader.nb_sample = nb_sample
          /\ data_reader.batch_size = opts.batch_size
          /\ meta_reader.batch_size = opts.batch_size
          /\ CapConfigured => nb_sample = opts.nb_sample
    /\ (LoopEnded /\ CapConfigured) =>
          /\ progress = opts.nb_sample
          /\ ConsumedSamples = opts.nb_sample
          /\ {"preds", "outputs", "chromo", "pos"} \subseteq DOMAIN data
          /\ \A name \in DeclaredOutputs :
                /\ Accumulated(data["preds"][name]) = opts.nb_sample
                /\ Accumulated(data["outputs"][name]) = opts.nb_sample
          /\ Accumulated(data["chromo"]) = opts.nb_sample
          /\ Accumulated(data["pos"]) = opts.nb_sample

\* A cap of 3 on 4 samples read in batches of 2.
C8_Witness ==
    /\ LoopEnded
    /\ opts.nb_sample = 3 /\ env.total = 4 /\ opts.batch_size = 2
    /\ progress = 3

\* The stage of the run once a statement of main has completed.
StageAfter(stmt) ==
    CASE stmt = "check_model_files" -> "INIT"
      [] stmt = "load_model" -> "MODEL_LOADED"
      [] stmt = "open_data" -> "DATA_OPENED"
      [] stmt \in {"next_batch", "predict", "build_batch", "accumulate"} -> "STREAMING"
      [] stmt \in {"finalize", "evaluate", "write_report"} -> "FINALIZED"
      [] stmt \in {"print_report", "write_data"} -> "REPORTED"
      [] stmt = "return" -> "DONE"

AllStages == <<"INIT", "MODEL_LOADED", "DATA_OPENED", "STREAMING", "FINALIZED",
               "REPORTED", "DONE">>

\* The stages a sequence of completed statements went through, each run of
\* equal stages counted once.
RECURSIVE StagesOf(_)
StagesOf(t) ==
    IF t = <<>> THEN <<>>
    ELSE LET rest == StagesOf(Tail(t))
             st == StageAfter(Head(t))
         IN  IF rest # <<>> /\ Head(rest) = st THEN rest ELSE <<st>> \o rest

IsPrefix(a, b) == Len(a) <= Len(b) /\ SubSeq(b, 1, Len(a)) = a

\* C9: a run goes through the stages in order, none skipped or repeated; a
\* run that returns 0 went through all of them, finalized once and only
\* with the data reader exhausted, computed the metrics once from the
\* finalized data, wrote the long-form report iff a report path is
\* configured, printed the wide-form report once, and wrote the raw data iff
\* a data path is configured, after the report was printed.
C9_StageOrder ==
    /\ IsPrefix(StagesOf(trace), AllStages)
    /\ StackRan => data_reader.i = Len(data_reader.batches)
    /\ pc = "done" =>
          /\ StagesOf(trace) = AllStages
          /\ Count("finalize") = 1 /\ Count("evaluate") = 1
          /\ Count("print_report") = 1 /\ Count("write_data") = 1
          /\ \A i \in 1..Len(trace) :
                StageAfter(trace[i]) = "STREAMING" => i < IndexIn("finalize")
          /\ IndexIn("finalize") < IndexIn("evaluate")
          /\ IndexIn("evaluate") < IndexIn("write_report")
          /\ IndexIn("write_report") < IndexIn("print_report")
          /\ IndexIn("print_report") < IndexIn("write_data")
          /\ report = UnstackReport(EvaluateOutputs(data["outputs"], data["preds"]))
          /\ printed = 1
          /\ files.report = (IF opts.out_report = None THEN "absent" ELSE "written")
          /\ files.data = (IF opts.out_data = None THEN "absent" ELSE "written")

\* A run of several batches returns 0 with a data path and no report path.
C9_Witness ==
    /\ pc = "done"
    /\ opts.out_report = None /\ opts.out_data # None
    /\ Len(Consumed) >= 2
    /\ files = [report |-> "absent", data |-> "written"]

\* C10: every array stored in data_batch['preds'] and data_batch['outputs']
\* keeps its sample axis: it has one entry per sample of the batch, a batch
\* of one sample included.
C10_SampleAxisKept ==
    (pc = "accumulate") =>
        \A name \in DeclaredOutputs :
            /\ HasLen(data_batch["preds"][name])
            /\ ArrLen(data_batch["preds"][name]) = batch_size
            /\ HasLen(data_batch["outputs"][name])
            /\ ArrLen(data_batch["outputs"][name]) = batch_size

====
